---- MODULE Spec2Model ----
(***************************************************************************)
(* Model of src/main.py: a small HTTP JSON API over an in-memory item      *)
(* store.  One action per HTTP verb handler of ApiRequestHandler (do_GET,  *)
(* do_POST), each including the dispatcher call_api and the endpoint it    *)
(* invokes.  Requests are served one after another (HTTPServer is the      *)
(* single-threaded server class).                                          *)
(*                                                                         *)
(* Python values are modelled as records of one shape, [t, s, n, a]:       *)
(*   t = "absent"  no such key in the mapping                              *)
(*   t = "null"    JSON null / Python None                                 *)
(*   t = "str"     a string, in s                                          *)
(*   t = "int"     an integer, in n                                        *)
(*   t = "float"   the float n.0                                           *)
(*   t = "list"    a list of strings, in a                                 *)
(* A mapping (query args, JSON object) is a record over Keys whose missing *)
(* keys hold Absent.                                                       *)
(***************************************************************************)
EXTENDS Integers, Sequences, FiniteSets, TLC

VARIABLES
    items,           \* example_data["items"]: sequence of [id, name, description]
    requests_total,  \* REQUESTS_TOTAL counter
    routing,         \* api.routing: method -> path -> handler name
    req,             \* the request served last
    called,          \* the endpoint the last request invoked, "" if none
    status,          \* status line of the last response; 0 = none was sent
    body,            \* payload of the last response
    handed,          \* how many requests the transport has handed to call_api
    issued,          \* every id an item of the store has held so far
    registered,      \* the registrations made so far, <<method, path, handler>>
    conn             \* per client connection: where its handler stands

vars == <<items, requests_total, routing, req, called, status, body, handed,
          issued, registered, conn>>

\* ------------------------------------------------------------------ bounds
MaxRequests == 4     \* requests the dispatcher is handed in one behaviour
MaxRegistrations == 3    \* registrations made in one behaviour of RegSpec
MaxConcRequests == 3     \* requests accepted in one behaviour of ConcSpec

\* ------------------------------------------------------------ Python values
Absent == [t |-> "absent", s |-> "", n |-> 0, a |-> <<>>]
JNull == [t |-> "null", s |-> "", n |-> 0, a |-> <<>>]
JStr(x) == [t |-> "str", s |-> x, n |-> 0, a |-> <<>>]
JInt(x) == [t |-> "int", s |-> "", n |-> x, a |-> <<>>]
JFloat(x) == [t |-> "float", s |-> "", n |-> x, a |-> <<>>]
JList(x) == [t |-> "list", s |-> "", n |-> 0, a |-> x]

Keys == {"q", "name", "description", "id"}
EmptyArgs == [k \in Keys |-> Absent]

\* dict.get(key): None both for a missing key and for a key holding null
Get(args, key) == IF args[key].t = "absent" THEN JNull ELSE args[key]
IsNone(v) == v.t = "null"

\* type(v).__name__
TypeName(v) ==
    CASE v.t = "null" -> "NoneType"
      [] v.t = "str" -> "str"
      [] v.t = "int" -> "int"
      [] v.t = "float" -> "float"
      [] v.t = "list" -> "list"

\* Python ==
PyEq(x, y) ==
    CASE x.t \in {"int", "float"} /\ y.t \in {"int", "float"} -> x.n = y.n
      [] x.t = "str" /\ y.t = "str" -> x.s = y.s
      [] x.t = "list" /\ y.t = "list" -> x.a = y.a
      [] x.t = "null" /\ y.t = "null" -> TRUE
      [] OTHER -> FALSE

RECURSIVE ReprList(_)
ReprList(a) ==
    IF a = <<>> THEN ""
    ELSE "'" \o Head(a) \o "'" \o (IF Len(a) > 1 THEN ", " ELSE "") \o ReprList(Tail(a))

\* str(v), as an f-string formats it
PyStr(v) ==
    CASE v.t = "null" -> "None"
      [] v.t = "str" -> v.s
      [] v.t = "int" -> ToString(v.n)
      [] v.t = "float" -> ToString(v.n) \o ".0"
      [] v.t = "list" -> "[" \o ReprList(v.a) \o "]"

\* variant of Substring: q matches only at the start of s (startswith)
Substring_prefix(q, s) == Len(q) <= Len(s) /\ SubSeq(s, 1, Len(q)) = q

\* q in s, for strings
Substring(q, s) ==
    \E i \in 1..(Len(s) - Len(q) + 1) : SubSeq(s, i, i + Len(q) - 1) = q

\* x in y raises TypeError
InRaises(x, y) ==
    \/ y.t = "str" /\ x.t # "str"
    \/ y.t \in {"int", "float"}

InError(x, y) ==
    IF y.t = "str"
    THEN "'in <string>' requires string as left operand, not " \o TypeName(x)
    ELSE "argument of type '" \o TypeName(y) \o "' is not iterable"

\* x in y, when it does not raise
In(x, y) ==
    CASE y.t = "str" -> Substring(x.s, y.s)
      [] y.t = "list" -> \E i \in 1..Len(y.a) : PyEq(JStr(y.a[i]), x)
      [] OTHER -> FALSE

\* -------------------------------------------------------- handler outcomes
\* What a handler is called with: a mapping, or (a POST body that is no JSON
\* object) some other value.
Dict(m) == [isdict |-> TRUE, map |-> m, val |-> JNull]
NonDict(v) == [isdict |-> FALSE, map |-> EmptyArgs, val |-> v]

\* A handler returns a value or raises; store is example_data["items"] as
\* the handler leaves it.
Return(v, st) == [raised |-> FALSE, value |-> v, error |-> "", store |-> st]
Raise(m, st) == [raised |-> TRUE, value |-> <<>>, error |-> m, store |-> st]

NoGet(args) == "'" \o TypeName(args.val) \o "' object has no attribute 'get'"

\* ------------------------------------------------------------ example data
example_data ==
    << [id |-> 1000, name |-> JStr("cat"), description |-> JStr("cat is meowing")],
       [id |-> 1001, name |-> JStr("dog"), description |-> JStr("dog is barking")],
       [id |-> 1002, name |-> JStr("bird"), description |-> JStr("bird is singing")] >>

Hostname == "host"

\* the ids held by the items of st
IdsOf(st) == {st[i].id : i \in 1..Len(st)}

\* ---------------------------------------------------------------- endpoints
index(args) ==
    Return([name |-> "Python REST API Example",
            summary |-> "Simple REST API with pure Python",
            version |-> "1.0.0",
            hostname |-> Hostname], items)

list_items(args) ==
    Return([count |-> Len(items), items |-> items], items)

\* index of the first item the comprehension's test raises on, 0 if none
FirstRaising(q, st) ==
    IF \E i \in 1..Len(st) : InRaises(q, st[i].name)
    THEN CHOOSE i \in 1..Len(st) :
            /\ InRaises(q, st[i].name)
            /\ \A j \in 1..(i - 1) : ~InRaises(q, st[j].name)
    ELSE 0

Matching(q, st) == SelectSeq(st, LAMBDA item : In(q, item.name))

search(args) ==
    IF ~args.isdict THEN Raise(NoGet(args), items)
    ELSE LET q == Get(args.map, "q") IN
         IF IsNone(q) THEN Return([error |-> "q parameter required"], items)
         ELSE IF FirstRaising(q, items) # 0
              THEN Raise(InError(q, items[FirstRaising(q, items)].name), items)
              ELSE LET results == Matching(q, items) IN
                   Return([count |-> Len(results), items |-> results], items)

\* variant of NewId: the increment is 2
NewId_skip(last_id) == last_id + 2

\* variant of NewId: the increment is missing
NewId_same(last_id) == last_id

\* last_id + 1
NewId(last_id) == last_id + 1

\* variant of add: only name is checked for None
add_nameonly(args) ==
    IF items = <<>> THEN Raise("list index out of range", items)
    ELSE LET last_id == items[Len(items)].id IN
         IF ~args.isdict THEN Raise(NoGet(args), items)
         ELSE LET name == Get(args.map, "name")
                  description == Get(args.map, "description") IN
              IF IsNone(name)
              THEN Return([error |-> "name and description are required"], items)
              ELSE LET item == [id |-> NewId(last_id), name |-> name,
                                description |-> description] IN
                   Return(item, Append(items, item))

\* variant of add: the id is taken from the first item, not the last
add_first(args) ==
    IF items = <<>> THEN Raise("list index out of range", items)
    ELSE LET last_id == items[1].id IN
         IF ~args.isdict THEN Raise(NoGet(args), items)
         ELSE LET name == Get(args.map, "name")
                  description == Get(args.map, "description") IN
              IF IsNone(name) \/ IsNone(description)
              THEN Return([error |-> "name and description are required"], items)
              ELSE LET item == [id |-> NewId(last_id), name |-> name,
                                description |-> description] IN
                   Return(item, Append(items, item))

\* variant of add: the item is appended before name and description are checked
add_early(args) ==
    IF items = <<>> THEN Raise("list index out of range", items)
    ELSE LET last_id == items[Len(items)].id IN
         IF ~args.isdict THEN Raise(NoGet(args), items)
         ELSE LET name == Get(args.map, "name")
                  description == Get(args.map, "description")
                  item == [id |-> NewId(last_id), name |-> name,
                           description |-> description] IN
              IF IsNone(name) \/ IsNone(description)
              THEN Return([error |-> "name and description are required"],
                          Append(items, item))
              ELSE Return(item, Append(items, item))

add(args) ==
    IF items = <<>> THEN Raise("list index out of range", items)
    ELSE LET last_id == items[Len(items)].id IN
         IF ~args.isdict THEN Raise(NoGet(args), items)
         ELSE LET name == Get(args.map, "name")
                  description == Get(args.map, "description") IN
              IF IsNone(name) \/ IsNone(description)
              THEN Return([error |-> "name and description are required"], items)
              ELSE LET item == [id |-> NewId(last_id), name |-> name,
                                description |-> description] IN
                   Return(item, Append(items, item))

\* dict == dict
ItemEq(x, y) ==
    /\ x.id = y.id
    /\ PyEq(x.name, y.name)
    /\ PyEq(x.description, y.description)

\* variant of ListRemove: drops the last element (list.pop())
ListRemove_pop(st, x) == SubSeq(st, 1, Len(st) - 1)

\* list.remove(x): drops the first element equal to x
ListRemove(st, x) ==
    LET k == CHOOSE i \in 1..Len(st) :
                 /\ ItemEq(st[i], x)
                 /\ \A j \in 1..(i - 1) : ~ItemEq(st[j], x)
    IN  SubSeq(st, 1, k - 1) \o SubSeq(st, k + 1, Len(st))

\* index of the first item with item["id"] == item_id, 0 if none
FirstWithId(st, item_id) ==
    IF \E i \in 1..Len(st) : PyEq(JInt(st[i].id), item_id)
    THEN CHOOSE i \in 1..Len(st) :
            /\ PyEq(JInt(st[i].id), item_id)
            /\ \A j \in 1..(i - 1) : ~PyEq(JInt(st[j].id), item_id)
    ELSE 0

delete(args) ==
    IF ~args.isdict THEN Raise(NoGet(args), items)
    ELSE LET item_id == Get(args.map, "id") IN
         IF IsNone(item_id) THEN Return([error |-> "id parameter required"], items)
         ELSE IF FirstWithId(items, item_id) # 0
              THEN Return([deleted |-> item_id],
                          ListRemove(items, items[FirstWithId(items, item_id)]))
              ELSE Return([error |-> "item not found with id " \o PyStr(item_id)],
                          items)

\* ------------------------------------------------------------- route table
\* variant of Register: a path already registered keeps its handler (setdefault)
Register_keep(rt, method, path, fn) ==
    IF path \in DOMAIN rt[method] THEN rt
    ELSE [rt EXCEPT ![method] =
            [p \in (DOMAIN @) \cup {path} |-> IF p = path THEN fn ELSE @[p]]]

\* API.get(path)(fn) / API.post(path)(fn)
Register(rt, method, path, fn) ==
    [rt EXCEPT ![method] =
        [p \in (DOMAIN @) \cup {path} |-> IF p = path THEN fn ELSE @[p]]]

EmptyRouting == [GET |-> <<>>, POST |-> <<>>]

\* the registrations the module performs when it is loaded, in order
StartupRouting ==
    Register(Register(Register(Register(Register(EmptyRouting,
        "GET", "/", "index"),
        "GET", "/list", "list_items"),
        "GET", "/search", "search"),
        "POST", "/add", "add"),
        "POST", "/delete", "delete")

\* the same registrations, as the decorators make them
StartupRegistrations ==
    << <<"GET", "/", "index">>, <<"GET", "/list", "list_items">>,
       <<"GET", "/search", "search">>, <<"POST", "/add", "add">>,
       <<"POST", "/delete", "delete">> >>

\* api.routing[method][path](args)
Invoke(fn, args) ==
    CASE fn = "index" -> index(args)
      [] fn = "list_items" -> list_items(args)
      [] fn = "search" -> search(args)
      [] fn = "add" -> add(args)
      [] fn = "delete" -> delete(args)

\* ---------------------------------------------------------------- requests
NoHeader == "<no header>"
NoBody == [kind |-> "none", val |-> JNull, map |-> EmptyArgs]
Malformed == [kind |-> "malformed", val |-> JNull, map |-> EmptyArgs]
Value(v) == [kind |-> "value", val |-> v, map |-> EmptyArgs]
Object(m) == [kind |-> "object", val |-> JNull, map |-> m]

\* a query string, as its key=value pairs in order
Queries ==
    { <<>>,
      << <<"q", "ca">> >>, << <<"q", "Ca">> >>, << <<"q", "d">> >>,
      << <<"q", "fish">> >>, << <<"q", "">> >>,
      << <<"q", "ca">>, <<"q", "d">> >>, << <<"q", "ca">>, <<"q", "">> >>,
      << <<"name", "ca">> >> }

GetPaths == {"/", "/list", "/search", "/health", "/metrics", "/nope", "/add", "/list/"}

GetRequests ==
    [method : {"GET"}, path : GetPaths, query : {<<>>},
     ctype : {NoHeader}, clen : {FALSE}, body : {NoBody}]
    \cup
    [method : {"GET"}, path : {"/search"}, query : Queries,
     ctype : {NoHeader}, clen : {FALSE}, body : {NoBody}]

AddNames == {Absent, JNull, JStr("fish"), JInt(7), JList(<<"ca">>)}
AddDescriptions == {Absent, JNull, JStr("fish swims")}
DeleteIds ==
    {Absent, JNull, JStr("1000"), JFloat(1001), JInt(9999)}
        \cup {JInt(i) : i \in 1000..1004}

AddBodies ==
    {Object([EmptyArgs EXCEPT !["name"] = n, !["description"] = d]) :
        n \in AddNames, d \in AddDescriptions}
DeleteBodies == {Object([EmptyArgs EXCEPT !["id"] = i]) : i \in DeleteIds}
OtherBodies ==
    {Malformed, Value(JNull), Value(JList(<<"fish">>)), Value(JStr("fish")), Value(JInt(7))}

PostPaths == {"/add", "/delete", "/list", "/nope", "/health"}
ContentTypes ==
    {NoHeader, "application/json", "text/plain", "application/json; charset=utf-8"}
FishBody ==
    Object([EmptyArgs EXCEPT !["name"] = JStr("fish"),
                             !["description"] = JStr("fish swims")])

PostRequests ==
    [method : {"POST"}, path : {"/add"}, query : {<<>>},
     ctype : {"application/json"}, clen : {TRUE}, body : AddBodies \cup OtherBodies]
    \cup
    [method : {"POST"}, path : {"/delete"}, query : {<<>>},
     ctype : {"application/json"}, clen : {TRUE}, body : DeleteBodies \cup OtherBodies]
    \cup
    [method : {"POST"}, path : PostPaths, query : {<<>>},
     ctype : {"application/json"}, clen : {TRUE}, body : {FishBody}]
    \cup
    [method : {"POST"}, path : {"/add", "/nope"}, query : {<<>>},
     ctype : ContentTypes \ {"application/json"}, clen : {TRUE},
     body : {Malformed, FishBody}]
    \cup
    [method : {"POST"}, path : {"/add"}, query : {<<>>},
     ctype : ContentTypes, clen : {FALSE}, body : {FishBody}]

NoRequest ==
    [method |-> "", path |-> "", query |-> <<>>, ctype |-> NoHeader, clen |-> FALSE,
     body |-> NoBody]

\* ------------------------------------------------------------- HTTP handler
\* no response is written: the exception leaves the handler
NoResponse == [closed |-> TRUE]

\* parse_qs: the non-blank values of each key, in order
RECURSIVE ValuesOf(_, _)
ValuesOf(query, k) ==
    IF query = <<>> THEN <<>>
    ELSE (IF Head(query)[1] = k /\ Head(query)[2] # "" THEN <<Head(query)[2]>> ELSE <<>>)
         \o ValuesOf(Tail(query), k)

\* do_GET's loop: a key with exactly one value gets that value
Normalize(query) ==
    [k \in Keys |->
        LET vs == ValuesOf(query, k) IN
        IF Len(vs) = 0 THEN Absent
        ELSE IF Len(vs) = 1 THEN JStr(vs[1]) ELSE JList(vs)]

\* api.routing[method][path] when path is in api.routing[method]
NotFound == ""

\* variant of Lookup: the path is looked up under either method
Lookup_anymethod(rt, method, path) ==
    IF path \in DOMAIN rt["GET"] THEN rt["GET"][path]
    ELSE IF path \in DOMAIN rt["POST"] THEN rt["POST"][path]
    ELSE NotFound

Lookup(rt, method, path) ==
    IF path \in DOMAIN rt[method] THEN rt[method][path] ELSE NotFound

\* variant of call_api: only requests that find a route are counted
call_api_routed(method, path, args) ==
    LET fn == Lookup(routing, method, path) IN
    IF fn # NotFound
    THEN LET out == Invoke(fn, args) IN
         /\ requests_total' = requests_total + 1
         /\ called' = fn
         /\ items' = out.store
         /\ status' = IF out.raised THEN 500 ELSE 200
         /\ body' = IF out.raised THEN [error |-> out.error] ELSE out.value
    ELSE /\ requests_total' = requests_total
         /\ called' = ""
         /\ items' = items
         /\ status' = 404
         /\ body' = [error |-> "not found"]

\* variant of call_api: a raised failure is answered with status 200
call_api_200(method, path, args) ==
    /\ requests_total' = requests_total + 1
    /\ LET fn == Lookup(routing, method, path) IN
       IF fn # NotFound
       THEN LET out == Invoke(fn, args) IN
            /\ called' = fn
            /\ items' = out.store
            /\ status' = 200
            /\ body' = IF out.raised THEN [error |-> out.error] ELSE out.value
       ELSE /\ called' = ""
            /\ items' = items
            /\ status' = 404
            /\ body' = [error |-> "not found"]

call_api(method, path, args) ==
    /\ requests_total' = requests_total + 1
    /\ LET fn == Lookup(routing, method, path) IN
       IF fn # NotFound
       THEN LET out == Invoke(fn, args) IN
            /\ called' = fn
            /\ items' = out.store
            /\ status' = IF out.raised THEN 500 ELSE 200
            /\ body' = IF out.raised THEN [error |-> out.error] ELSE out.value
       ELSE /\ called' = ""
            /\ items' = items
            /\ status' = 404
            /\ body' = [error |-> "not found"]

\* variant of do_GET: /health is routed like any other path
do_GET_routed(r) ==
    /\ requests_total < MaxRequests
    /\ req' = r
    /\ UNCHANGED <<routing, registered, conn>>
    /\ IF r.path = "/metrics"
       THEN /\ status' = 200
            /\ body' = [metrics |-> [app_requests_total |-> requests_total]]
            /\ called' = ""
            /\ UNCHANGED <<items, requests_total, handed>>
       ELSE /\ handed' = handed + 1
            /\ call_api("GET", r.path, Dict(Normalize(r.query)))
    /\ issued' = issued \cup IdsOf(items')

\* /metrics also stores two host readings (psutil) in the CPU and RAM gauges
\* before it answers; the gauges are read by nothing else and are left out of
\* the state.  The first conjunct bounds the behaviour (MaxRequests).
do_GET(r) ==
    /\ requests_total < MaxRequests
    /\ req' = r
    /\ UNCHANGED <<routing, registered, conn>>
    /\ LET args == Normalize(r.query) IN
       IF r.path = "/health"
       THEN /\ status' = 200
            /\ body' = [text |-> "OK"]
            /\ called' = ""
            /\ UNCHANGED <<items, requests_total, handed>>
       ELSE IF r.path = "/metrics"
       THEN /\ status' = 200
            /\ body' = [metrics |-> [app_requests_total |-> requests_total]]
            /\ called' = ""
            /\ UNCHANGED <<items, requests_total, handed>>
       ELSE /\ handed' = handed + 1
            /\ call_api("GET", r.path, Dict(args))
    /\ issued' = issued \cup IdsOf(items')

IsPrefix(p, x) == Len(p) <= Len(x) /\ SubSeq(x, 1, Len(p)) = p

\* variant of do_POST: the content type is accepted by prefix
do_POST_prefix(r) ==
    /\ requests_total < MaxRequests
    /\ req' = r
    /\ UNCHANGED <<routing, registered, conn>>
    /\ IF ~IsPrefix("application/json", r.ctype)
       THEN /\ status' = 400
            /\ body' = [error |-> "posted data must be in json format"]
            /\ called' = ""
            /\ UNCHANGED <<items, requests_total, handed>>
       ELSE IF ~r.clen \/ r.body.kind = "malformed"
       THEN /\ status' = 0
            /\ body' = NoResponse
            /\ called' = ""
            /\ UNCHANGED <<items, requests_total, handed>>
       ELSE /\ handed' = handed + 1
            /\ call_api("POST", r.path,
                        IF r.body.kind = "object" THEN Dict(r.body.map)
                        ELSE NonDict(r.body.val))
    /\ issued' = issued \cup IdsOf(items')

do_POST(r) ==
    /\ requests_total < MaxRequests
    /\ req' = r
    /\ UNCHANGED <<routing, registered, conn>>
    /\ IF r.ctype # "application/json"
       THEN /\ status' = 400
            /\ body' = [error |-> "posted data must be in json format"]
            /\ called' = ""
            /\ UNCHANGED <<items, requests_total, handed>>
       ELSE IF ~r.clen \/ r.body.kind = "malformed"
       THEN /\ status' = 0
            /\ body' = NoResponse
            /\ called' = ""
            /\ UNCHANGED <<items, requests_total, handed>>
       ELSE /\ handed' = handed + 1
            /\ call_api("POST", r.path,
                        IF r.body.kind = "object" THEN Dict(r.body.map)
                        ELSE NonDict(r.body.val))
    /\ issued' = issued \cup IdsOf(items')

\* ------------------------------------------------------------ connections
\* the clients that may have a connection open at the same time
Clients == {"a", "b"}

\* pc: "idle" no request in progress; "read" add is about to read the last
\* id; "append" add has read it and found name and description.  answered
\* counts the responses the client has received.
IdleConn == [pc |-> "idle", last_id |-> 0, args |-> EmptyArgs, answered |-> 0]

\* ------------------------------------------------------------ specification
Init ==
    /\ items = example_data
    /\ requests_total = 0
    /\ routing = StartupRouting
    /\ req = NoRequest
    /\ called = ""
    /\ status = 0
    /\ body = NoResponse
    /\ handed = 0
    /\ issued = IdsOf(example_data)
    /\ registered = StartupRegistrations
    /\ conn = [c \in Clients |-> IdleConn]

Next ==
    \/ \E r \in GetRequests : do_GET(r)
    \/ \E r \in PostRequests : do_POST(r)

Spec == Init /\ [][Next]_vars

\* ------------------------------------------------------------------ claims
\* requests, by what the transport does with them
IsGet(r, path) == r.method = "GET" /\ r.path = path
JsonPost(r) == r.method = "POST" /\ r.ctype = "application/json"
Decoded(r) == JsonPost(r) /\ r.clen /\ r.body.kind \in {"object", "value"}
ObjectPost(r, path) == Decoded(r) /\ r.body.kind = "object" /\ r.path = path
Dispatched(r) ==
    \/ r.method = "GET" /\ r.path \notin {"/health", "/metrics"}
    \/ Decoded(r)
HasKey(r, k) == r.body.map[k].t # "absent"
HasValue(r, k) == r.body.map[k].t \notin {"absent", "null"}
Last(st) == st[Len(st)]

\* C1: in every state reachable from the default store by requests served one
\* after another, no two items of the store have the same id.
C1_UniqueIds ==
    \A i, j \in 1..Len(items) : i # j => items[i].id # items[j].id

\* C1 witness: /add has just appended to a store an earlier /delete shortened.
C1_Witness ==
    /\ called = "add" /\ status = 200 /\ "id" \in DOMAIN body
    /\ Len(items) = 3 /\ items[1].id # 1000

\* the item a successful /add of request r creates
Created(r) ==
    [id |-> Last(items).id + 1, name |-> r.body.map["name"],
     description |-> r.body.map["description"]]

AddEffect(r) ==
    /\ items' = Append(items, Created(r))
    /\ status' = 200
    /\ body' = Created(r)
    /\ items = example_data => body'.id = 1003

\* a /list that follows a successful /add shows the created item last
ListAfterAdd ==
    (called = "add" /\ status = 200 /\ "id" \in DOMAIN body /\ IsGet(req', "/list"))
        => /\ status' = 200
           /\ Last(body'.items) = body

\* C2 as claimed: a POST /add whose args contain both name and description, on
\* a non-empty store, appends exactly one item with id = last id + 1 and
\* returns it with status 200, and a following /list has it as its last item.
C2_AsClaimed ==
    [][/\ (ObjectPost(req', "/add") /\ HasKey(req', "name")
             /\ HasKey(req', "description") /\ items # <<>>) => AddEffect(req')
       /\ ListAfterAdd]_vars

\* C2 amended: a POST /add whose args hold a value other than null under both
\* name and description, on a non-empty store, appends exactly one item
\* {id, name, description} with id = last id + 1 and returns it with status
\* 200; a following /list has it as its last item; on the default store the id
\* is 1003.
C2_AddAppends ==
    [][/\ (ObjectPost(req', "/add") /\ HasValue(req', "name")
             /\ HasValue(req', "description") /\ items # <<>>) => AddEffect(req')
       /\ ListAfterAdd]_vars

\* C2 witness: /list answered right after /add created item 1003 on the
\* default store.
C2_Witness ==
    /\ IsGet(req, "/list") /\ status = 200
    /\ Len(items) = 4 /\ Last(body.items).id = 1003
    /\ SubSeq(items, 1, 3) = example_data
    /\ requests_total = 2

\* C3 as claimed: in every reachable store state, the empty store included, a
\* POST /add whose args lack name or lack description returns status 200 with
\* {"error": "name and description are required"} and leaves the store as it
\* was.
C3_AsClaimed ==
    [][(ObjectPost(req', "/add")
          /\ (~HasKey(req', "name") \/ ~HasKey(req', "description")))
       => /\ status' = 200
          /\ body' = [error |-> "name and description are required"]
          /\ items' = items]_vars

\* st without its k-th element
RemoveAt(st, k) == [i \in 1..(Len(st) - 1) |-> IF i < k THEN st[i] ELSE st[i + 1]]

\* the given id equals a stored id: equal numbers; a string never equals one
IdEquals(stored, given) == given.t \in {"int", "float"} /\ given.n = stored
IdFound(given) == \E i \in 1..Len(items) : IdEquals(items[i].id, given)
FirstFound(given) ==
    CHOOSE i \in 1..Len(items) :
        /\ IdEquals(items[i].id, given)
        /\ \A j \in 1..(i - 1) : ~IdEquals(items[j].id, given)

DeleteEffect(given) ==
    /\ status' = 200
    /\ IF IdFound(given)
       THEN /\ items' = RemoveAt(items, FirstFound(given))
            /\ body' = [deleted |-> given]
       ELSE /\ items' = items
            /\ body' = [error |-> "item not found with id " \o PyStr(given)]

DeleteExamples(given) ==
    /\ given = JStr("1000")
         => items' = items /\ body' = [error |-> "item not found with id 1000"]
    /\ given = JInt(9999)
         => items' = items /\ body' = [error |-> "item not found with id 9999"]
    /\ (given = JInt(1000) /\ items = example_data)
         => items' = Tail(example_data) /\ body' = [deleted |-> JInt(1000)]

IdRequired ==
    /\ status' = 200
    /\ body' = [error |-> "id parameter required"]
    /\ items' = items

\* C4 as claimed: POST /delete with an id removes exactly the first item whose
\* id equals it and answers {"deleted": id}, or, when no item's id equals it,
\* answers {"error": "item not found with id <id>"} and leaves the store; with
\* id absent it answers {"error": "id parameter required"} and leaves the
\* store.
C4_AsClaimed ==
    [][ObjectPost(req', "/delete") =>
         IF HasKey(req', "id")
         THEN DeleteEffect(req'.body.map["id"]) /\ DeleteExamples(req'.body.map["id"])
         ELSE IdRequired]_vars

\* C4 amended: as claimed for an id that is not JSON null; an id that is null
\* is answered like an absent one, {"error": "id parameter required"}, store
\* unchanged.
C4_Delete ==
    [][ObjectPost(req', "/delete") =>
         IF HasValue(req', "id")
         THEN DeleteEffect(req'.body.map["id"]) /\ DeleteExamples(req'.body.map["id"])
         ELSE IdRequired]_vars

\* C4 witness: /delete has removed the middle item of the default store.
C4_Witness ==
    /\ called = "delete" /\ status = 200 /\ body = [deleted |-> JInt(1001)]
    /\ items = <<example_data[1], example_data[3]>>

\* C5 as claimed: GET /list always returns status 200 with the whole store in
\* store order and count = its length, and every /add that carries name and
\* description raises that count by one (so N of them raise it by N).
C5_AsClaimed ==
    [][/\ IsGet(req', "/list") =>
            status' = 200 /\ body' = [count |-> Len(items), items |-> items]
       /\ (ObjectPost(req', "/add") /\ HasValue(req', "name")
             /\ HasValue(req', "description")) => Len(items') = Len(items) + 1]_vars

\* name contains q as a case-sensitive substring
Contains(name, q) ==
    /\ name.t = "str" /\ q.t = "str"
    /\ \E i \in 1..Len(name.s) : \E j \in i..Len(name.s) : SubSeq(name.s, i, j) = q.s

Found(q) == SelectSeq(items, LAMBDA item : Contains(item.name, q))

SearchEffect(q) ==
    /\ status' = 200
    /\ body' = [count |-> Len(Found(q)), items |-> Found(q)]
    /\ (items = example_data /\ q = JStr("ca")) =>
           body' = [count |-> 1, items |-> <<example_data[1]>>]

QRequired ==
    /\ status' = 200
    /\ body' = [error |-> "q parameter required"]

\* C6 as claimed: GET /search without q answers {"error": "q parameter
\* required"}; whenever the args contain q, in every reachable store state, it
\* answers status 200 with exactly the items whose name contains q, in store
\* order, and their count; the store is unchanged in both cases.
C6_AsClaimed ==
    [][IsGet(req', "/search") =>
         /\ items' = items
         /\ LET q == Normalize(req'.query)["q"] IN
            IF q.t = "absent" THEN QRequired ELSE SearchEffect(q)]_vars

\* C6 amended: GET /search without q answers {"error": "q parameter
\* required"}; whenever q is given once (a single string) and every stored
\* name is a string, it answers status 200 with exactly the items whose name
\* contains q as a case-sensitive substring, in store order, and their count;
\* on the default store q = "ca" yields exactly the item named cat.  The store
\* is unchanged in every case.
C6_Search ==
    [][IsGet(req', "/search") =>
         /\ items' = items
         /\ LET q == Normalize(req'.query)["q"] IN
            /\ q.t = "absent" => QRequired
            /\ (q.t = "str" /\ \A i \in 1..Len(items) : items[i].name.t = "str")
                 => SearchEffect(q)]_vars

\* C6 witness: /search?q=d has answered with dog and bird, in store order.
C6_Witness ==
    /\ IsGet(req, "/search") /\ status = 200 /\ "count" \in DOMAIN body
    /\ body.count = 2 /\ body.items[1].id = 1001 /\ body.items[2].id = 1002
    /\ items = example_data

\* the (method, path) pairs registered when the module is loaded
RegisteredPairs ==
    { <<"GET", "/">>, <<"GET", "/list">>, <<"GET", "/search">>,
      <<"POST", "/add">>, <<"POST", "/delete">> }

\* C7: every dispatched request whose (method, path) is not exactly a
\* registered pair is answered 404 {"error": "not found"}; no handler is
\* invoked and the store is unchanged.
C7_NotFound ==
    [][(Dispatched(req') /\ <<req'.method, req'.path>> \notin RegisteredPairs)
       => /\ status' = 404
          /\ body' = [error |-> "not found"]
          /\ called' = ""
          /\ items' = items]_vars

\* C7 witness: GET /add, a path registered under POST only, was answered 404
\* after the store had been changed.
C7_Witness ==
    /\ IsGet(req, "/add") /\ status = 404 /\ called = ""
    /\ items # example_data

\* the arguments the transport hands the dispatcher for request r
ArgsOf(r) ==
    IF r.method = "GET" THEN Dict(Normalize(r.query))
    ELSE IF r.body.kind = "object" THEN Dict(r.body.map)
    ELSE NonDict(r.body.val)

\* C8: whenever a registered handler raises, the dispatcher answers 500 with
\* {"error": <string of the failure>} and the store is as it was before the
\* request; /add on an empty store and a POST body that is no JSON object are
\* such failures.
C8_Failure ==
    [][/\ (Dispatched(req') /\ called' # "" /\ Invoke(called', ArgsOf(req')).raised)
          => /\ status' = 500
             /\ body' = [error |-> Invoke(called', ArgsOf(req')).error]
             /\ items' = items
       /\ status' = 500 => items' = items /\ DOMAIN body' = {"error"}
       /\ (Decoded(req') /\ req'.path = "/add" /\ items = <<>>)
          => status' = 500 /\ body' = [error |-> "list index out of range"]
       /\ (Decoded(req') /\ req'.path \in {"/add", "/delete"}
             /\ req'.body = Value(JList(<<"fish">>)) /\ items # <<>>)
          => /\ status' = 500
             /\ body' = [error |-> "'list' object has no attribute 'get'"]]_vars

\* C8 witness: /add on the emptied store was answered 500.
C8_Witness ==
    /\ called = "add" /\ status = 500 /\ items = <<>>
    /\ body = [error |-> "list index out of range"]

\* C9 as claimed: every POST with content type application/json whose body is
\* not valid JSON is answered 500 with an {"error": <message>} body.
C9_AsClaimed ==
    (JsonPost(req) /\ req.clen /\ req.body.kind = "malformed")
        => status = 500 /\ DOMAIN body = {"error"}

\* C10: every POST whose declared content type is not exactly application/json
\* is answered 400 whatever its path and body; no handler is invoked and the
\* store and the request counter are unchanged.
C10_BadContentType ==
    [][(req'.method = "POST" /\ req'.ctype # "application/json")
       => /\ status' = 400
          /\ called' = ""
          /\ items' = items
          /\ requests_total' = requests_total]_vars

\* C10 witness: a POST /add declared application/json; charset=utf-8 was
\* answered 400 after two dispatched requests.
C10_Witness ==
    /\ req.method = "POST" /\ req.path = "/add"
    /\ req.ctype = "application/json; charset=utf-8"
    /\ status = 400 /\ requests_total = 2

\* C11: the request counter never decreases, every request handed to the
\* dispatcher raises it by exactly 1 whatever the outcome (200, 404 or 500),
\* and its value always equals the number of requests handed to the dispatcher.
C11_Counter ==
    /\ [](requests_total = handed)
    /\ [][/\ requests_total' >= requests_total
          /\ Dispatched(req') => /\ requests_total' = requests_total + 1
                                 /\ status' \in {200, 404, 500}
          /\ ~Dispatched(req') => requests_total' = requests_total]_vars

\* C11 witness: three deletes answered 200 and a fourth request answered 404
\* were dispatched, and the counter reads 4.
C11_Witness ==
    /\ requests_total = 4 /\ handed = 4
    /\ status = 404 /\ items = <<>>

\* C12: GET /health is answered 200 with body OK in every reachable state and
\* bypasses the dispatcher: no handler is invoked, and the store and the
\* request counter are unchanged.
C12_Health ==
    [][IsGet(req', "/health")
       => /\ status' = 200
          /\ body' = [text |-> "OK"]
          /\ called' = ""
          /\ items' = items
          /\ requests_total' = requests_total
          /\ handed' = handed]_vars

\* C12 witness: /health answered 200 OK on the emptied store.
C12_Witness ==
    /\ IsGet(req, "/health") /\ status = 200 /\ body = [text |-> "OK"]
    /\ items = <<>> /\ requests_total = 3

\* C13: a request changes the store in at most one of two ways: a successful
\* /add appends exactly one item at the end, a successful /delete removes
\* exactly one item, and in both cases every other item keeps its id, name,
\* description and relative order.  Every other request (any GET, and any
\* request answered 400, 404, 500 or with a 200 error payload) leaves the
\* store unchanged.
C13_Frame ==
    [][/\ \/ items' = items
          \/ /\ ObjectPost(req', "/add") /\ status' = 200 /\ "id" \in DOMAIN body'
             /\ Len(items') = Len(items) + 1
             /\ SubSeq(items', 1, Len(items)) = items
             /\ Last(items') = body'
          \/ /\ ObjectPost(req', "/delete") /\ status' = 200
             /\ "deleted" \in DOMAIN body'
             /\ \E k \in 1..Len(items) : items' = RemoveAt(items, k)
       /\ (req'.method = "GET" \/ status' \in {0, 400, 404, 500}
             \/ "error" \in DOMAIN body') => items' = items]_vars

\* C13 witness: after an /add, /delete has removed the second item; the first,
\* the third and the added one are as they were, in the same order.
C13_Witness ==
    /\ called = "delete" /\ status = 200 /\ "deleted" \in DOMAIN body
    /\ Len(items) = 3
    /\ items[1] = example_data[1] /\ items[2] = example_data[3]
    /\ items[3].id = 1003

\* the ids of the store are strictly increasing in store order
IdsIncreasing ==
    \A i, j \in 1..Len(items) : i < j => items[i].id < items[j].id

MaxIdOf(st) ==
    CHOOSE m \in {st[i].id : i \in 1..Len(st)} : \A i \in 1..Len(st) : st[i].id <= m

AddSucceeds == ObjectPost(req', "/add") /\ status' = 200 /\ "id" \in DOMAIN body'

\* C14: under requests served one after another the ids of the store items
\* are strictly increasing in store order, so the id a successful /add assigns
\* equals the maximum id in the store plus 1 and is greater than every id in
\* the store at that moment.
C14_MaxPlusOne ==
    /\ []IdsIncreasing
    /\ [][AddSucceeds
          => /\ body'.id = MaxIdOf(items) + 1
             /\ \A i \in 1..Len(items) : body'.id > items[i].id]_vars

\* C14 witness: /add assigned 1004 to a store that had lost its first item
\* and gained item 1003.
C14_Witness ==
    /\ called = "add" /\ status = 200 /\ "id" \in DOMAIN body
    /\ body.id = 1004 /\ Len(items) = 4 /\ items[1].id = 1001

\* the last request deleted the item that was last in the store, and the
\* store is not empty
DeletedLast ==
    /\ called = "delete" /\ status = 200 /\ "deleted" \in DOMAIN body
    /\ items # <<>> /\ body.deleted.n > Last(items).id

\* C15: an id can be assigned twice: when the item that is last in the store
\* is deleted and /add follows, /add returns an id that an item deleted
\* since held before (never above the id just deleted), for a different item.
C15_Reuse ==
    [][(DeletedLast /\ AddSucceeds)
       => /\ body'.id \in issued
          /\ body'.id \notin IdsOf(items)
          /\ body'.id <= body.deleted.n]_vars

\* C15 witness: /add has returned id 1002, which bird held in the default
\* store, for the new item fish.
C15_Witness ==
    /\ called = "add" /\ status = 200 /\ "id" \in DOMAIN body
    /\ body.id = 1002 /\ body.name = JStr("fish")
    /\ Last(items) = body /\ example_data[3].id = 1002

\* C16 as claimed: in every reachable state every item of the store has an
\* integer id, a string name and a string description, whatever JSON bodies
\* were sent to /add.
C16_AsClaimed ==
    \A i \in 1..Len(items) :
        /\ items[i].id \in Int
        /\ items[i].name.t = "str"
        /\ items[i].description.t = "str"

\* C16 amended: in every reachable state every item of the store has an
\* integer id, and a name and a description that are JSON values other than
\* null, of whatever JSON type the /add body gave them (a number or a list is
\* stored as given).
C16_ItemShape ==
    \A i \in 1..Len(items) :
        /\ items[i].id \in Int
        /\ items[i].name.t \in {"str", "int", "float", "list"}
        /\ items[i].description.t \in {"str", "int", "float", "list"}

\* C16 witness: the store holds an item whose name is the number 7.
C16_Witness ==
    /\ called = "add" /\ status = 200 /\ "id" \in DOMAIN body
    /\ Last(items) = body /\ body.name = JInt(7)

\* ---------------------------------------------------- registration alone
\* The route table from api = API() on, under any sequence of registrations.
RegPaths == {"/", "/list", "/list/"}
RegHandlers == {"index", "list_items", "add"}

RegInit ==
    /\ items = example_data
    /\ requests_total = 0
    /\ routing = EmptyRouting
    /\ req = NoRequest
    /\ called = ""
    /\ status = 0
    /\ body = NoResponse
    /\ handed = 0
    /\ issued = IdsOf(example_data)
    /\ registered = <<>>
    /\ conn = [c \in Clients |-> IdleConn]

\* @api.get(path) applied to fn
get(path, fn) ==
    /\ Len(registered) < MaxRegistrations
    /\ routing' = Register(routing, "GET", path, fn)
    /\ registered' = Append(registered, <<"GET", path, fn>>)
    /\ UNCHANGED <<items, requests_total, req, called, status, body, handed,
                   issued, conn>>

\* @api.post(path) applied to fn
post(path, fn) ==
    /\ Len(registered) < MaxRegistrations
    /\ routing' = Register(routing, "POST", path, fn)
    /\ registered' = Append(registered, <<"POST", path, fn>>)
    /\ UNCHANGED <<items, requests_total, req, called, status, body, handed,
                   issued, conn>>

RegNext ==
    \/ \E p \in RegPaths, f \in RegHandlers : get(p, f)
    \/ \E p \in RegPaths, f \in RegHandlers : post(p, f)

RegSpec == RegInit /\ [][RegNext]_vars

\* the handler of the latest registration of (m, p) in regs, NotFound if none
MostRecent(regs, m, p) ==
    LET idx == {i \in 1..Len(regs) : regs[i][1] = m /\ regs[i][2] = p} IN
    IF idx = {} THEN NotFound
    ELSE regs[CHOOSE i \in idx : \A j \in idx : j <= i][3]

Pairs == {"GET", "POST"} \X (RegPaths \cup {"/nope", "list"})

\* C17: after any sequence of registrations, lookup of (method, path) returns
\* exactly the handler of the most recent registration of that method and
\* exact path, and not-found when there was none; a registration never
\* changes the handler of another pair, and the same path under GET and under
\* POST are independent entries.
C17_Lookup ==
    /\ [](\A mp \in Pairs :
             Lookup(routing, mp[1], mp[2]) = MostRecent(registered, mp[1], mp[2]))
    /\ [][\A mp \in Pairs :
             mp # <<Last(registered')[1], Last(registered')[2]>>
                => Lookup(routing', mp[1], mp[2]) = Lookup(routing, mp[1], mp[2])]_vars

\* C17 witness: GET /list was registered twice with different handlers and
\* POST /list once in between; lookup gives the later GET handler, and the POST
\* entry is its own.
C17_Witness ==
    /\ Len(registered) = 3
    /\ registered[1] = <<"GET", "/list", "index">>
    /\ registered[2] = <<"POST", "/list", "add">>
    /\ registered[3] = <<"GET", "/list", "list_items">>
    /\ Lookup(routing, "GET", "/list") = "list_items"
    /\ Lookup(routing, "POST", "/list") = "add"
    /\ Lookup(routing, "GET", "/list/") = NotFound

\* ------------------------------------------------- clients at the same time
\* Two clients keep sending POST /add while the other's request may be
\* waiting; add is split where it reads the store and where it writes it.
ConcBodies ==
    { [EmptyArgs EXCEPT !["name"] = JStr("fish"), !["description"] = JStr("fish swims")],
      [EmptyArgs EXCEPT !["name"] = JStr("bird"), !["description"] = JStr("fish swims")],
      [EmptyArgs EXCEPT !["name"] = JStr("fish")] }

AddRequest(a) ==
    [method |-> "POST", path |-> "/add", query |-> <<>>,
     ctype |-> "application/json", clen |-> TRUE, body |-> Object(a)]

\* variant of CanAccept: every connection gets a thread of its own
\* (ThreadingHTTPServer)
CanAccept_threaded(c) == conn[c].pc = "idle"

\* HTTPServer.serve_forever: the next request is taken up only when the
\* handler of the previous one has returned
CanAccept(c) == \A d \in Clients : conn[d].pc = "idle"

\* do_POST up to the call of add: the counter is incremented, the route found
Accept(c, a) ==
    /\ requests_total < MaxConcRequests
    /\ CanAccept(c)
    /\ req' = AddRequest(a)
    /\ requests_total' = requests_total + 1
    /\ handed' = handed + 1
    /\ called' = Lookup(routing, "POST", "/add")
    /\ conn' = [conn EXCEPT ![c].pc = "read", ![c].args = a]
    /\ UNCHANGED <<items, routing, status, body, issued, registered>>

\* what call_api writes when the handler is done
Answer(c, st, b) ==
    /\ status' = st
    /\ body' = b
    /\ conn' = [conn EXCEPT ![c].pc = "idle", ![c].last_id = 0,
                            ![c].args = EmptyArgs, ![c].answered = @ + 1]

\* add, from reading the last id to the check of name and description
ReadLast(c) ==
    /\ conn[c].pc = "read"
    /\ IF items = <<>>
       THEN Answer(c, 500, [error |-> "list index out of range"])
       ELSE IF IsNone(Get(conn[c].args, "name")) \/ IsNone(Get(conn[c].args, "description"))
       THEN Answer(c, 200, [error |-> "name and description are required"])
       ELSE /\ conn' = [conn EXCEPT ![c].pc = "append",
                                    ![c].last_id = items[Len(items)].id]
            /\ UNCHANGED <<status, body>>
    /\ UNCHANGED <<items, requests_total, routing, req, called, handed, issued,
                   registered>>

\* add, building and appending the item, and the response
AppendItem(c) ==
    /\ conn[c].pc = "append"
    /\ LET item == [id |-> NewId(conn[c].last_id),
                    name |-> Get(conn[c].args, "name"),
                    description |-> Get(conn[c].args, "description")] IN
       /\ items' = Append(items, item)
       /\ Answer(c, 200, item)
    /\ issued' = issued \cup IdsOf(items')
    /\ UNCHANGED <<requests_total, routing, req, called, handed, registered>>

ConcNext ==
    \/ \E c \in Clients, a \in ConcBodies : Accept(c, a)
    \/ \E c \in Clients : ReadLast(c)
    \/ \E c \in Clients : AppendItem(c)

ConcSpec == Init /\ [][ConcNext]_vars

InFlight(c) == conn[c].pc # "idle"

\* both clients hold the same last id, read before either appended
BothRead ==
    \E c, d \in Clients :
        /\ c # d /\ conn[c].pc = "append" /\ conn[d].pc = "append"
        /\ conn[c].last_id = conn[d].last_id

DuplicateIds == \E i, j \in 1..Len(items) : i # j /\ items[i].id = items[j].id

C19_AsClaimed ==
    [][items = <<>>
       => /\ items' = <<>>
          /\ (JsonPost(req') /\ req'.clen /\ req'.path = "/add") => status' = 500
          /\ IsGet(req', "/list") => (status' = 200 /\ body'.count = 0)]_vars
====
